---- MODULE Spec2Model ----
(***************************************************************************)
(* Voice interview agent: the interview state machine (GroqLLM), the       *)
(* request/response server (main.py) with its session registry, the        *)
(* interactive loop (InterviewAgent.run_interview), and the recorder       *)
(* (AudioRecorder.record_with_silence_detection, specification RecSpec).   *)
(* MachineSpec runs the state machine on its own, for any number of turns. *)
(*                                                                         *)
(* Text is a sequence of tokens; "phrase in text" is modelled as: some     *)
(* token of the (lower-cased) text is the phrase.  Calls to the external   *)
(* capabilities (transcription, generation, synthesis, capture, playback)  *)
(* are the points where a handler is suspended: each is an action whose    *)
(* outcome (failure or the returned value) is chosen nondeterministically. *)
(***************************************************************************)
EXTENDS Integers, Sequences, FiniteSets, TLC

\* ------------------------------------------------------------------ bounds
MaxSessions == 2    \* sessions the registry may hold
MaxReq      == 3    \* requests the server receives in one run
MaxSlots    == 2    \* requests that may be open at the transport at once
MaxIters    == 3    \* loop iterations of one run_interview
MaxRuns     == 2    \* run_interview calls on one InterviewAgent
MaxSeconds  == 5    \* longest max_duration of a capture, in seconds
MaxTurns    == 6    \* advances of a state machine used on its own

SessionIds == 1..(MaxSessions + 1)
Slots      == 1..MaxSlots
NoSid      == MaxSessions + 2    \* no session id

\* ------------------------------------------------------------ text model
\* Generated interviewer utterances (the generation engine is a black box).
Utterances ==
    { <<"walk me through", " ">>,
      <<"Tell me about", "?">>,
      <<"What do you think", "?", "Best of luck">> }

\* Opening utterances the generation engine returns to start_interview.
Openings ==
    { <<"walk me through", " ">>,
      <<"Tell me about", "?">> }

\* What the transcription engine returns for the candidate's audio; <<>> and
\* whitespace are what it returns for audio without speech.
Texts ==
    { <<>>,
      <<" ">>,
      <<"Thank you for your time">> }

Names  == {"Alex"}
Roles  == {"Backend Engineer"}
Voices == {"asteria", "nova"}

\* str.lower() on the tokens of the vocabulary
LowerTok(t) ==
    CASE t = "Tell me about"           -> "tell me about"
      [] t = "What do you think"       -> "what do you think"
      [] t = "Best of luck"            -> "best of luck"
      [] t = "Thank you for your time" -> "thank you for your time"
      [] t = "EXIT"                    -> "exit"
      [] OTHER                         -> t

Lower(s) == [i \in DOMAIN s |-> LowerTok(s[i])]

\* `phrase in s`
Contains(s, phrase) == \E i \in DOMAIN s : s[i] = phrase

IsSpace(t) == t = " "

\* str.strip(): drop leading and trailing whitespace
RECURSIVE StripLeft(_)
StripLeft(s) ==
    IF s # <<>> /\ IsSpace(Head(s)) THEN StripLeft(Tail(s)) ELSE s

RECURSIVE StripRight(_)
StripRight(s) ==
    IF s # <<>> /\ IsSpace(s[Len(s)])
    THEN StripRight(SubSeq(s, 1, Len(s) - 1))
    ELSE s

Strip(s) == StripRight(StripLeft(s))

new_topic_indicators ==
    { "tell me about", "can you describe", "what experience", "how would you",
      "walk me through", "what's your approach", "have you ever",
      "what do you think" }

ending_phrases ==
    { "thank you for your time", "thank you for speaking", "best of luck",
      "pleasure speaking", "great talking", "enjoyed our conversation",
      "we'll be in touch" }

\* ------------------------------------------------- interview state machine
MAX_QUESTIONS == 5    \* config.MAX_QUESTIONS

\* GroqLLM.__init__
NewLLM ==
    [ conversation_history |-> <<>>,
      question_count       |-> 0,
      main_questions_asked |-> 0,
      max_questions        |-> MAX_QUESTIONS,
      interview_satisfied  |-> FALSE,
      satisfaction_level   |-> "gathering_info" ]

\* variant of Reset: the turn counter survives
ResetKeepingCount(l) ==
    [ l EXCEPT !.conversation_history = <<>>,
               !.main_questions_asked = 0,
               !.interview_satisfied  = FALSE,
               !.satisfaction_level   = "gathering_info" ]

\* GroqLLM.reset
Reset(l) ==
    [ l EXCEPT !.conversation_history = <<>>,
               !.question_count       = 0,
               !.main_questions_asked = 0,
               !.interview_satisfied  = FALSE,
               !.satisfaction_level   = "gathering_info" ]

\* GroqLLM._generate_response, after the generation call returned msg
AppendAssistant(l, msg) ==
    [ l EXCEPT !.conversation_history =
                   Append(@, [role |-> "assistant", content |-> msg]) ]

\* GroqLLM.start_interview up to the generation call
BeginCall(l) == Reset(l)

\* GroqLLM.start_interview after the generation call returned msg
BeginReturn(l, msg) ==
    [ AppendAssistant(l, msg) EXCEPT !.main_questions_asked = 1 ]

\* GroqLLM.respond up to the generation call
AdvanceCall(l, user_input) ==
    [ l EXCEPT !.conversation_history =
                   Append(@, [role |-> "user", content |-> user_input]),
               !.question_count = @ + 1 ]

\* variant of StateContext: the thresholds are 1 and 3
StateContextShifted(l) ==
    IF l.main_questions_asked >= 3 THEN "late"
    ELSE IF l.main_questions_asked >= 1 THEN "mid"
    ELSE "early"

\* the state-conditioned instruction chosen by GroqLLM.respond
StateContext(l) ==
    IF l.main_questions_asked >= 4 THEN "late"
    ELSE IF l.main_questions_asked >= 2 THEN "mid"
    ELSE "early"

IsNewMainQuestion(response) ==
    \E ind \in new_topic_indicators : Contains(Lower(response), ind)

IsEnding(response) ==
    \E phrase \in ending_phrases : Contains(Lower(response), phrase)

\* topic escalation in GroqLLM.respond
CountTopic(l, response) ==
    IF IsNewMainQuestion(response) /\ Contains(response, "?")
    THEN [ l EXCEPT !.main_questions_asked = @ + 1 ]
    ELSE l

\* variant of Classify: the completion flag is assigned the outcome of this
\* turn's closure detection
ClassifyAssigning(l, response) ==
    IF IsEnding(response)
    THEN [ l EXCEPT !.interview_satisfied = TRUE,
                    !.satisfaction_level  = "satisfied" ]
    ELSE IF l.main_questions_asked >= 3
         THEN [ l EXCEPT !.interview_satisfied = FALSE,
                         !.satisfaction_level  = "almost_satisfied" ]
         ELSE [ l EXCEPT !.interview_satisfied = FALSE ]

\* variant of Classify: three opened topics end the interview
ClassifyEndingAtThree(l, response) ==
    IF IsEnding(response)
    THEN [ l EXCEPT !.interview_satisfied = TRUE,
                    !.satisfaction_level  = "satisfied" ]
    ELSE IF l.main_questions_asked >= 3
         THEN [ l EXCEPT !.interview_satisfied = TRUE,
                         !.satisfaction_level  = "almost_satisfied" ]
         ELSE l

\* variant of Classify: the interview also ends at the configured turn limit
ClassifyWithTurnLimit(l, response) ==
    IF IsEnding(response) \/ l.question_count >= l.max_questions
    THEN [ l EXCEPT !.interview_satisfied = TRUE,
                    !.satisfaction_level  = "satisfied" ]
    ELSE IF l.main_questions_asked >= 3
         THEN [ l EXCEPT !.satisfaction_level = "almost_satisfied" ]
         ELSE l

\* closure detection in GroqLLM.respond
Classify(l, response) ==
    IF IsEnding(response)
    THEN [ l EXCEPT !.interview_satisfied = TRUE,
                    !.satisfaction_level  = "satisfied" ]
    ELSE IF l.main_questions_asked >= 3
         THEN [ l EXCEPT !.satisfaction_level = "almost_satisfied" ]
         ELSE l

\* variant of AdvanceReturn: closure detection reads the whole exchange, the
\* candidate's message included
AdvanceReturnOnExchange(l, msg) ==
    LET h == l.conversation_history
    IN  Classify(CountTopic(AppendAssistant(l, msg), msg),
                 h[Len(h)].content \o msg)

\* GroqLLM.respond after the generation call returned msg
AdvanceReturn(l, msg) ==
    Classify(CountTopic(AppendAssistant(l, msg), msg), msg)

\* GroqLLM.get_state
GetState(l) ==
    [ question_count       |-> l.question_count,
      main_questions_asked |-> l.main_questions_asked,
      satisfaction_level   |-> l.satisfaction_level,
      can_prompt_end       |-> l.main_questions_asked >= 3,
      is_complete          |-> l.interview_satisfied ]

Entry(role, content) == [role |-> role, content |-> content]

\* the text of the instruction of a tier
Instruction(tier) == <<tier>>

\* the `messages` GroqLLM._generate_response sends: the system prompt, the
\* history, and the instruction as a user message of this request only
Messages(l, instruction) ==
    <<[role |-> "system", content |-> <<"system_prompt">>]>>
      \o l.conversation_history
      \o <<[role |-> "user", content |-> instruction]>>

\* no generation call in progress
NoTurn == [ pc |-> "idle", tier |-> "none", messages |-> <<>> ]

\* ------------------------------------------------------------ audio capture
AUDIO_SAMPLE_RATE == 16000    \* config.AUDIO_SAMPLE_RATE
blocksize         == 1024     \* frames per chunk the stream hands to the callback

\* A captured chunk is the sequence of its int16 samples; in the model a
\* chunk holds two samples, each standing for one half of the block: silence,
\* a tone whose squares wrap to 0 in int16, and a tone whose squares stay
\* positive in int16.
Chunks == { <<0, 0>>, <<256, 256>>, <<1000, 0>> }

SampleRates == {1024, 1536}               \* AudioRecorder(sample_rate), in Hz
SilenceMs   == {50, 1500}                 \* silence_duration, in ms
MinMs       == {1000}                     \* min_duration, in ms
MaxMs       == {500, 2000, MaxSeconds * 1000}  \* max_duration, in ms
Thresholds  == {1}                        \* silence_threshold, in hundredths

\* int16 arithmetic wraps around
Wrap16(x) == ((x + 32768) % 65536) - 32768

RECURSIVE Sum(_)
Sum(s) == IF s = <<>> THEN 0 ELSE Head(s) + Sum(Tail(s))

\* indata**2 on an int16 array: every square is an int16
SquaredInt16(indata) == [i \in DOMAIN indata |-> Wrap16(indata[i] * indata[i])]

\* total / n < (thr / 100)^2, for thr in hundredths
MeanBelow(total, n, thr) == total <= (thr * thr * n - 1) \div 10000

\* `rms < silence_threshold` for rms = np.sqrt(np.mean(indata**2)): the mean
\* is taken in floating point over the int16 squares; the root of a negative
\* mean is nan, and nan compares false
IsQuiet(indata, thr) ==
    LET total == Sum(SquaredInt16(indata))
    IN  total >= 0 /\ MeanBelow(total, Len(indata), thr)

\* int(duration * self.sample_rate / 1024), for a duration in ms
ChunksIn(ms, sample_rate) == (ms * sample_rate) \div (1000 * blocksize)

RECURSIVE Concatenate(_)
Concatenate(chunks) ==
    IF chunks = <<>> THEN <<>> ELSE Head(chunks) \o Concatenate(Tail(chunks))

\* b"": no bytes
NoBytes == [ nchannels |-> 0, sampwidth |-> 0, framerate |-> 0, frames |-> <<>> ]

\* AudioRecorder._to_wav_bytes: a WAV container of 16-bit frames
ToWavBytes(r, audio) ==
    [ nchannels |-> r.channels, sampwidth |-> 2, framerate |-> r.sample_rate,
      frames |-> audio ]

\* AudioRecorder.__init__
NewRecorder(sample_rate) ==
    [ sample_rate |-> sample_rate, channels |-> 1, pc |-> "idle",
      max_ms |-> 0, thr |-> 0, silence_ms |-> 0, min_ms |-> 0,
      audio_chunks |-> <<>>, silence_samples |-> 0,
      required_silence_samples |-> 0, min_samples |-> 0,
      stopped |-> FALSE, ticks |-> 0, result |-> NoBytes ]

\* ------------------------------------------------------------------ state
VARIABLES
    mode,       \* which program runs: "server" (main.py) or "agent" (interview_agent.py)
    sessions,   \* main.sessions: session id -> session
    reqs,       \* per transport slot: the request it carries and the handler's position
    nreq,       \* requests received so far
    last,       \* the response most recently sent by the server
    llm,        \* llm_groq.llm, the singleton used by the interactive loop
    agent,      \* the InterviewAgent: running, transcript, position in run_interview
    rec,        \* the AudioRecorder and its record_with_silence_detection call
    turn        \* the generation call a GroqLLM used on its own is suspended in

vars == <<mode, sessions, reqs, nreq, last, llm, agent, rec, turn>>

AURA_VOICES == {"asteria", "luna", "stella", "athena", "hera", "orion",
                "arcas", "perseus", "angus", "orpheus", "helios", "zeus"}

\* DeepgramTTS.__init__: AURA_VOICES.get(voice, config.DEEPGRAM_TTS_MODEL)
TTSModel(voice) == IF voice \in AURA_VOICES THEN voice ELSE "asteria"

Kinds == {"start", "state", "end", "analyze", "respond"}

\* no session: what a handler holds before it has looked its session up
NoSession ==
    [ llm |-> NewLLM, tts |-> "", candidate_name |-> "", role |-> "",
      transcript |-> <<>> ]

\* s0: the session as the handler found it when it was entered
IdleReq ==
    [ pc |-> "idle", kind |-> "none", sid |-> NoSid,
      name |-> "", role |-> "", voice |-> "",
      llm |-> NewLLM, text |-> <<>>, resp |-> <<>>, calls |-> 0, t0 |-> 0,
      s0 |-> NoSession ]

\* failed: a capability call of the handler failed; same: the session of a
\* submit_turn is as the handler found it
NoResponse ==
    [ kind |-> "none", sid |-> NoSid, status |-> 0, state |-> GetState(NewLLM),
      calls |-> 0, t0 |-> 0, failed |-> FALSE, same |-> TRUE ]

\* failed: the call of the current run_interview that raised, if any
NewAgent ==
    [ pc |-> "new", running |-> FALSE, transcript |-> <<>>, cont |-> "none",
      voice |-> "asteria", kind |-> "none", iter0 |-> 0, runs |-> 0, iters |-> 0,
      failed |-> "none" ]

Init ==
    /\ mode \in {"server", "agent"}
    /\ sessions = <<>>
    /\ reqs = [r \in Slots |-> IdleReq]
    /\ nreq = 0
    /\ last = NoResponse
    /\ llm = NewLLM
    /\ agent = NewAgent
    /\ rec = NewRecorder(AUDIO_SAMPLE_RATE)
    /\ turn = NoTurn

Known(sid) == sid \in DOMAIN sessions

\* variant of Lookup: every handler works on one shared session object
LookupShared(sid) == CHOOSE s \in DOMAIN sessions : TRUE

\* `session = sessions[session_id]`: the session object a handler works on
Lookup(sid) == sid

\* variant of CanRun: the handlers await their capability calls, so the event
\* loop enters other handlers meanwhile
CanRunAwaiting(r) == TRUE

\* The handlers are `async def` coroutines that never await: once the event
\* loop has entered a handler it runs it to its return, blocking calls
\* included, before it enters the handler of any other request.
CanRun(r) == \A q \in Slots \ {r} : reqs[q].pc \in {"idle", "pending"}

Active(r) == reqs[r].pc \notin {"idle", "pending"}

\* the handler of slot r sends its response; `last` holds it until the server
\* enters the next handler that does not respond at once
\* (calls: the capability calls the handler made; t0: the length the
\* session's transcript had when the handler was entered)
\* (no handler changes a session in the step that sends its response to a
\* submit_turn, so `same` compares with the session before the step)
RespondWith(r, status, state, calls, failed) ==
    /\ last' = [ kind |-> reqs[r].kind, sid |-> reqs[r].sid,
                 status |-> status, state |-> state,
                 calls |-> calls, t0 |-> reqs[r].t0,
                 failed |-> failed,
                 same |-> (reqs[r].kind = "respond" /\ reqs[r].sid \in DOMAIN sessions)
                            => sessions[reqs[r].sid] = reqs[r].s0 ]
    /\ reqs' = [reqs EXCEPT ![r] = IdleReq]

Respond(r, status, state, calls) == RespondWith(r, status, state, calls, FALSE)

\* variant of CallFailed: the handler swallows the failure and answers 200
CallFailedSwallowed(r) ==
    RespondWith(r, 200, GetState(NewLLM), reqs[r].calls + 1, TRUE)

\* a capability call of the handler raised: FastAPI answers 500
CallFailed(r) ==
    RespondWith(r, 500, GetState(NewLLM), reqs[r].calls + 1, TRUE)

\* variant of NotFound: an unknown id gets a default session
NotFoundDefault(r) ==
    /\ Respond(r, 200, GetState(NewLLM), 0)
    /\ sessions' =
         [s \in DOMAIN sessions \cup {reqs[r].sid} |->
            IF s = reqs[r].sid
            THEN [ llm |-> NewLLM, tts |-> "asteria", candidate_name |-> "",
                   role |-> "", transcript |-> <<>> ]
            ELSE sessions[s]]

\* `if session_id not in sessions: raise HTTPException(404)`
NotFound(r) ==
    /\ Respond(r, 404, GetState(NewLLM), 0)
    /\ UNCHANGED sessions

\* a request reaches the server
Arrive(r, kind, sid, name, role, voice) ==
    /\ mode = "server"
    /\ reqs[r].pc = "idle"
    /\ \A q \in Slots : q < r => reqs[q].pc # "idle"
    /\ nreq < MaxReq
    /\ kind = "start" =>
         Cardinality(DOMAIN sessions)
           + Cardinality({q \in Slots : reqs[q].kind = "start"}) < MaxSessions
    /\ reqs' = [reqs EXCEPT ![r] =
                  [ IdleReq EXCEPT !.pc = "pending", !.kind = kind, !.sid = sid,
                                   !.name = name, !.role = role, !.voice = voice ]]
    /\ nreq' = nreq + 1
    /\ UNCHANGED <<turn, rec, mode, sessions, last, llm, agent>>

\* uuid.uuid4(): an id no session and no start handler in flight has; ids
\* are opaque, so the model takes the least unused one
FreshId ==
    LET used == DOMAIN sessions
                  \cup {reqs[q].sid : q \in {x \in Slots : reqs[x].kind = "start"}}
    IN  CHOOSE id \in SessionIds \ used : \A j \in SessionIds \ used : id <= j

\* start_interview: uuid4, GroqLLM(), DeepgramTTS(voice), llm.start_interview
\* up to its generation call
StartEntry(r) ==
    /\ reqs[r].pc = "pending" /\ reqs[r].kind = "start"
    /\ CanRun(r)
    /\ reqs' = [reqs EXCEPT ![r].pc = "start_gen", ![r].sid = FreshId,
                            ![r].llm = BeginCall(NewLLM)]
    /\ last' = NoResponse
    /\ UNCHANGED <<turn, rec, mode, sessions, nreq, llm, agent>>

\* start_interview: the generation call returns or fails
StartGenerate(r) ==
    /\ reqs[r].pc = "start_gen"
    /\ \/ /\ CallFailed(r)
       \/ /\ \E u \in Openings :
               reqs' = [reqs EXCEPT ![r].pc = "start_tts",
                                    ![r].llm = BeginReturn(@, u),
                                    ![r].resp = Strip(u),
                                    ![r].calls = @ + 1]
          /\ UNCHANGED last
    /\ UNCHANGED <<turn, rec, mode, sessions, nreq, llm, agent>>

\* the session start_interview stores for the request of slot r
WithSession(r) ==
    [s \in DOMAIN sessions \cup {reqs[r].sid} |->
       IF s = reqs[r].sid
       THEN [ llm |-> reqs[r].llm,
              tts |-> TTSModel(reqs[r].voice),
              candidate_name |-> reqs[r].name,
              role |-> reqs[r].role,
              transcript |-> <<Entry("interviewer", reqs[r].resp)>> ]
       ELSE sessions[s]]

\* variant of StartSynth: the session is stored before the synthesis call
StartSynthStoringFirst(r) ==
    /\ reqs[r].pc = "start_tts"
    /\ \/ /\ CallFailed(r)
          /\ sessions' = WithSession(r)
       \/ /\ sessions' = WithSession(r)
          /\ Respond(r, 200, GetState(reqs[r].llm), reqs[r].calls + 1)
    /\ UNCHANGED <<turn, rec, mode, nreq, llm, agent>>

\* start_interview: the synthesis call returns or fails; the session is stored
StartSynth(r) ==
    /\ reqs[r].pc = "start_tts"
    /\ \/ /\ CallFailed(r)
          /\ UNCHANGED sessions
       \/ /\ sessions' =
               [s \in DOMAIN sessions \cup {reqs[r].sid} |->
                  IF s = reqs[r].sid
                  THEN [ llm |-> reqs[r].llm,
                         tts |-> TTSModel(reqs[r].voice),
                         candidate_name |-> reqs[r].name,
                         role |-> reqs[r].role,
                         transcript |-> <<Entry("interviewer", reqs[r].resp)>> ]
                  ELSE sessions[s]]
          /\ Respond(r, 200, GetState(reqs[r].llm), reqs[r].calls + 1)
    /\ UNCHANGED <<turn, rec, mode, nreq, llm, agent>>

\* get_interview_state
GetInterviewState(r) ==
    /\ reqs[r].pc = "pending" /\ reqs[r].kind = "state"
    /\ CanRun(r)
    /\ IF ~Known(reqs[r].sid)
       THEN NotFound(r)
       ELSE /\ Respond(r, 200, GetState(sessions[Lookup(reqs[r].sid)].llm), 0)
            /\ UNCHANGED sessions
    /\ UNCHANGED <<turn, rec, mode, nreq, llm, agent>>

\* end_interview
EndInterview(r) ==
    /\ reqs[r].pc = "pending" /\ reqs[r].kind = "end"
    /\ CanRun(r)
    /\ IF ~Known(reqs[r].sid)
       THEN NotFound(r)
       ELSE /\ Respond(r, 200, GetState(sessions[Lookup(reqs[r].sid)].llm), 0)
            /\ UNCHANGED sessions
    /\ UNCHANGED <<turn, rec, mode, nreq, llm, agent>>

\* analyze_interview up to its generation call
AnalyzeEntry(r) ==
    /\ reqs[r].pc = "pending" /\ reqs[r].kind = "analyze"
    /\ CanRun(r)
    /\ IF ~Known(reqs[r].sid)
       THEN NotFound(r)
       ELSE /\ reqs' = [reqs EXCEPT ![r].pc = "analyze"]
            /\ last' = NoResponse
            /\ UNCHANGED sessions
    /\ UNCHANGED <<turn, rec, mode, nreq, llm, agent>>

\* analyze_interview: the generation call returns an analysis, returns text
\* that is no JSON, or fails; the last two give the default analysis
AnalyzeCall(r) ==
    /\ reqs[r].pc = "analyze"
    /\ \E outcome \in {"analysis", "no_json", "failed"} :
         RespondWith(r, 200, GetState(sessions[Lookup(reqs[r].sid)].llm),
                     reqs[r].calls + 1, outcome = "failed")
    /\ UNCHANGED <<turn, rec, mode, sessions, nreq, llm, agent>>

\* variant of WithTurn: the transcript is rebuilt from the new entry
WithTurnRebuilt(sid, l, e) ==
    [sessions EXCEPT ![Lookup(sid)].llm = l,
                     ![Lookup(sid)].transcript = <<e>>]

\* llm.respond's effect and `session["transcript"].append(e)`
WithTurn(sid, l, e) ==
    [sessions EXCEPT ![Lookup(sid)].llm = l,
                     ![Lookup(sid)].transcript = Append(@, e)]

\* respond_to_audio up to its transcription call: the 404 check and the
\* base64 decoding of the audio, which raises on malformed input
RespondEntry(r) ==
    /\ reqs[r].pc = "pending" /\ reqs[r].kind = "respond"
    /\ CanRun(r)
    /\ IF ~Known(reqs[r].sid)
       THEN NotFound(r)
       ELSE \/ /\ Respond(r, 500, GetState(NewLLM), 0)
               /\ UNCHANGED sessions
            \/ /\ reqs' = [reqs EXCEPT ![r].pc = "stt",
                             ![r].t0 = Len(sessions[Lookup(reqs[r].sid)].transcript),
                             ![r].s0 = sessions[Lookup(reqs[r].sid)]]
               /\ last' = NoResponse
               /\ UNCHANGED sessions
    /\ UNCHANGED <<turn, rec, mode, nreq, llm, agent>>

\* variant of NoSpeech: an empty transcription is answered as a success
NoSpeechAccepted(r) ==
    /\ Respond(r, 200, GetState(sessions[Lookup(reqs[r].sid)].llm),
               reqs[r].calls + 1)
    /\ UNCHANGED sessions

\* `if not transcript: raise HTTPException(status_code=422)`
NoSpeech(r) ==
    /\ Respond(r, 422, GetState(NewLLM), reqs[r].calls + 1)
    /\ UNCHANGED sessions

\* respond_to_audio: the transcription call fails, returns nothing, or returns
\* text; with text the handler appends the candidate entry and runs
\* llm.respond up to its generation call
RespondTranscribe(r) ==
    /\ reqs[r].pc = "stt"
    /\ LET sid == reqs[r].sid
           s   == sessions[Lookup(sid)]
       IN  \/ /\ CallFailed(r)
              /\ UNCHANGED sessions
           \/ \E transcription \in Texts :
                LET text == Strip(transcription)
                IN
                IF text = <<>>
                THEN NoSpeech(r)
                ELSE /\ sessions' = WithTurn(sid, AdvanceCall(s.llm, text),
                                             Entry("candidate", text))
                     /\ reqs' = [reqs EXCEPT ![r].pc = "gen", ![r].text = text,
                                             ![r].calls = @ + 1]
                     /\ UNCHANGED last
    /\ UNCHANGED <<turn, rec, mode, nreq, llm, agent>>

\* variant of RespondGenerate: a failed generation call takes the user
\* message back out of the history
RespondGenerateRollingBack(r) ==
    /\ reqs[r].pc = "gen"
    /\ LET sid == reqs[r].sid
           s   == sessions[Lookup(sid)]
       IN  \/ /\ CallFailed(r)
              /\ sessions' = [sessions EXCEPT ![Lookup(sid)].llm = reqs[r].s0.llm]
           \/ \E u \in Utterances :
                /\ sessions' = WithTurn(sid, AdvanceReturn(s.llm, u),
                                        Entry("interviewer", Strip(u)))
                /\ reqs' = [reqs EXCEPT ![r].pc = "tts", ![r].resp = Strip(u),
                                        ![r].calls = @ + 1]
                /\ UNCHANGED last
    /\ UNCHANGED <<turn, rec, mode, nreq, llm, agent>>

\* respond_to_audio: the generation call of llm.respond fails or returns; on
\* return llm.respond classifies the utterance and the handler appends the
\* interviewer entry
RespondGenerate(r) ==
    /\ reqs[r].pc = "gen"
    /\ LET sid == reqs[r].sid
           s   == sessions[Lookup(sid)]
       IN  \/ /\ CallFailed(r)
              /\ UNCHANGED sessions
           \/ \E u \in Utterances :
                /\ sessions' = WithTurn(sid, AdvanceReturn(s.llm, u),
                                        Entry("interviewer", Strip(u)))
                /\ reqs' = [reqs EXCEPT ![r].pc = "tts", ![r].resp = Strip(u),
                                        ![r].calls = @ + 1]
                /\ UNCHANGED last
    /\ UNCHANGED <<turn, rec, mode, nreq, llm, agent>>

\* respond_to_audio: the synthesis call fails or returns; the response
\* carries llm.get_state()
RespondSynth(r) ==
    /\ reqs[r].pc = "tts"
    /\ LET s == sessions[Lookup(reqs[r].sid)]
       IN  \/ CallFailed(r)
           \/ Respond(r, 200, GetState(s.llm), reqs[r].calls + 1)
    /\ UNCHANGED <<turn, rec, mode, sessions, nreq, llm, agent>>

ServerNext ==
    \/ \E r \in Slots, name \in Names, role \in Roles, voice \in Voices :
         Arrive(r, "start", NoSid, name, role, voice)
    \/ \E r \in Slots, kind \in Kinds \ {"start"}, sid \in SessionIds :
         Arrive(r, kind, sid, "", "", "")
    \/ \E r \in Slots : StartEntry(r)
    \/ \E r \in Slots : StartGenerate(r)
    \/ \E r \in Slots : StartSynth(r)
    \/ \E r \in Slots : GetInterviewState(r)
    \/ \E r \in Slots : EndInterview(r)
    \/ \E r \in Slots : AnalyzeEntry(r)
    \/ \E r \in Slots : AnalyzeCall(r)
    \/ \E r \in Slots : RespondEntry(r)
    \/ \E r \in Slots : RespondTranscribe(r)
    \/ \E r \in Slots : RespondGenerate(r)
    \/ \E r \in Slots : RespondSynth(r)

\* ------------------------------------------------------- interactive loop
\* what the candidate may be transcribed as saying to the interactive loop
SpokenTexts == Texts \cup { <<"please", "EXIT">> }

exit_words == {"exit", "quit", "stop interview", "end interview"}

\* variant of IsExit: the reply is not lower-cased
IsExitCaseSensitive(response) ==
    \E word \in exit_words : Contains(response, word)

IsExit(response) == \E word \in exit_words : Contains(Lower(response), word)

Reprompt == <<"I didn't catch that. Could you please repeat?">>
Farewell == <<"Thank you for your time. The interview is now concluded.">>

Suspended == {"begin", "capture", "stt", "gen", "syn", "play", "sleep"}

\* variant of Speak: what is spoken is not recorded
SpeakUnrecorded(a, text, cont) ==
    [ a EXCEPT !.pc = "syn", !.cont = cont ]

\* InterviewAgent.speak up to its synthesis call: the entry is appended first
Speak(a, text, cont) ==
    [ a EXCEPT !.transcript = Append(@, Entry("interviewer", text)),
               !.pc = "syn", !.cont = cont ]

\* `except Exception`: running = False, and the exception is raised again
\* (failed names the call that raised by the position it was made at)
Raise(a) == [ a EXCEPT !.running = FALSE, !.pc = "raised", !.failed = a.pc ]

\* InterviewAgent.__init__: tts.set_voice raises ValueError on an unknown voice
AgentInit(voice) ==
    /\ mode = "agent"
    /\ agent.pc = "new"
    /\ agent' = IF voice \in AURA_VOICES
                THEN [ agent EXCEPT !.pc = "idle", !.voice = voice ]
                ELSE [ agent EXCEPT !.pc = "no_agent" ]
    /\ UNCHANGED <<turn, rec, mode, sessions, reqs, nreq, last, llm>>

\* run_interview up to the generation call of llm.start_interview
RunInterview ==
    /\ agent.pc \in {"idle", "returned", "raised"}
    /\ agent.runs < MaxRuns
    /\ agent' = [ agent EXCEPT !.running = TRUE, !.transcript = <<>>,
                               !.pc = "begin", !.cont = "none",
                               !.kind = "opening", !.iter0 = 0,
                               !.runs = @ + 1, !.iters = 0,
                               !.failed = "none" ]
    /\ llm' = BeginCall(llm)
    /\ UNCHANGED <<turn, rec, mode, sessions, reqs, nreq, last>>

\* the generation call of llm.start_interview fails or returns; the opening
\* is spoken
AgentBegin ==
    /\ agent.pc = "begin"
    /\ \/ /\ agent' = Raise(agent)
          /\ UNCHANGED llm
       \/ \E u \in Openings :
            /\ llm' = BeginReturn(llm, u)
            /\ agent' = Speak(agent, Strip(u), "loop")
    /\ UNCHANGED <<turn, rec, mode, sessions, reqs, nreq, last>>

\* speak: the synthesis call fails or returns
AgentSynth ==
    /\ agent.pc = "syn"
    /\ \/ agent' = Raise(agent)
       \/ agent' = [ agent EXCEPT !.pc = "play" ]
    /\ UNCHANGED <<turn, rec, mode, sessions, reqs, nreq, last, llm>>

\* speak: playback fails or ends; control goes back to run_interview, which
\* sleeps, goes to the loop head, or leaves the loop after the farewell
AgentPlay ==
    /\ agent.pc = "play"
    /\ \/ agent' = Raise(agent)
       \/ agent' = CASE agent.cont = "sleep" -> [ agent EXCEPT !.pc = "sleep" ]
                     [] agent.cont = "loop"  -> [ agent EXCEPT !.pc = "loop" ]
                     [] OTHER -> [ agent EXCEPT !.pc = "returned",
                                                !.running = FALSE ]
    /\ UNCHANGED <<turn, rec, mode, sessions, reqs, nreq, last, llm>>

\* time.sleep(0.5) at the end of an iteration
AgentSleep ==
    /\ agent.pc = "sleep"
    /\ agent' = [ agent EXCEPT !.pc = "loop" ]
    /\ UNCHANGED <<turn, rec, mode, sessions, reqs, nreq, last, llm>>

\* variant of AgentLoop: `while self.running`
AgentLoopWhileRunning ==
    /\ agent.pc = "loop"
    /\ IF agent.running
       THEN /\ agent.iters < MaxIters
            /\ agent' = [ agent EXCEPT !.pc = "capture", !.kind = "none",
                                       !.iter0 = Len(agent.transcript),
                                       !.iters = @ + 1 ]
       ELSE agent' = [ agent EXCEPT !.pc = "returned", !.running = FALSE ]
    /\ UNCHANGED <<turn, rec, mode, sessions, reqs, nreq, last, llm>>

\* `while self.running and not self.llm.is_interview_complete`: listen starts
\* a capture, or the loop ends and run_interview returns the transcript
AgentLoop ==
    /\ agent.pc = "loop"
    /\ IF agent.running /\ ~llm.interview_satisfied
       THEN /\ agent.iters < MaxIters
            /\ agent' = [ agent EXCEPT !.pc = "capture", !.kind = "none",
                                       !.iter0 = Len(agent.transcript),
                                       !.iters = @ + 1 ]
       ELSE agent' = [ agent EXCEPT !.pc = "returned", !.running = FALSE ]
    /\ UNCHANGED <<turn, rec, mode, sessions, reqs, nreq, last, llm>>

\* variant of AgentCapture: listen sends empty audio to transcription
AgentCaptureTranscribingEmpty ==
    /\ agent.pc = "capture"
    /\ \/ agent' = Raise(agent)
       \/ agent' = [ agent EXCEPT !.pc = "stt", !.kind = "empty_capture" ]
       \/ agent' = [ agent EXCEPT !.pc = "stt" ]
    /\ UNCHANGED <<turn, rec, mode, sessions, reqs, nreq, last, llm>>

\* listen: the capture fails, returns no audio (listen returns "" and the
\* loop re-prompts), or returns audio, which goes to transcription
AgentCapture ==
    /\ agent.pc = "capture"
    /\ \/ agent' = Raise(agent)
       \/ agent' = Speak([agent EXCEPT !.kind = "empty_capture"], Reprompt, "loop")
       \/ agent' = [ agent EXCEPT !.pc = "stt" ]
    /\ UNCHANGED <<turn, rec, mode, sessions, reqs, nreq, last, llm>>

\* listen: the transcription call fails or returns text, which listen appends
\* as the candidate entry; run_interview then re-prompts on empty text, says
\* farewell on an exit word, or runs llm.respond up to its generation call
AgentTranscribe ==
    /\ agent.pc = "stt"
    /\ \/ /\ agent' = Raise(agent)
          /\ UNCHANGED llm
       \/ \E transcription \in SpokenTexts :
            LET text  == Strip(transcription)
                heard == [ agent EXCEPT
                             !.transcript = Append(@, Entry("candidate", text)) ]
            IN  IF text = <<>>
                THEN /\ agent' = Speak([heard EXCEPT !.kind = "empty_text"],
                                       Reprompt, "loop")
                     /\ UNCHANGED llm
                ELSE IF IsExit(text)
                THEN /\ agent' = Speak([heard EXCEPT !.kind = "exit"],
                                       Farewell, "break")
                     /\ UNCHANGED llm
                ELSE /\ agent' = [ heard EXCEPT !.pc = "gen", !.kind = "turn" ]
                     /\ llm' = AdvanceCall(llm, text)
    /\ UNCHANGED <<turn, rec, mode, sessions, reqs, nreq, last>>

\* the generation call of llm.respond fails or returns; the response is
\* classified and spoken
AgentGenerate ==
    /\ agent.pc = "gen"
    /\ \/ /\ agent' = Raise(agent)
          /\ UNCHANGED llm
       \/ \E u \in Utterances :
            /\ llm' = AdvanceReturn(llm, u)
            /\ agent' = Speak(agent, Strip(u), "sleep")
    /\ UNCHANGED <<turn, rec, mode, sessions, reqs, nreq, last>>

\* variant of KeyboardInterrupt: the interrupt is handled as any exception
KeyboardInterruptReraised ==
    /\ agent.pc \in Suspended
    /\ agent' = [ Raise(agent) EXCEPT !.kind = "interrupted" ]
    /\ UNCHANGED <<turn, rec, mode, sessions, reqs, nreq, last, llm>>

\* `except KeyboardInterrupt`: running = False, the transcript is returned
KeyboardInterrupt ==
    /\ agent.pc \in Suspended
    /\ agent' = [ agent EXCEPT !.running = FALSE, !.pc = "returned",
                               !.kind = "interrupted" ]
    /\ UNCHANGED <<turn, rec, mode, sessions, reqs, nreq, last, llm>>

AgentNext ==
    \/ \E voice \in Voices : AgentInit(voice)
    \/ RunInterview
    \/ AgentBegin
    \/ AgentSynth
    \/ AgentPlay
    \/ AgentSleep
    \/ AgentLoop
    \/ AgentCapture
    \/ AgentTranscribe
    \/ AgentGenerate
    \/ KeyboardInterrupt

Next == ServerNext \/ AgentNext

Spec == Init /\ [][Next]_vars

\* ------------------------------------------------------------ the recorder
\* record_with_silence_detection up to `sd.sleep`: the stream is open
RecordWithSilenceDetection(max_ms, thr, silence_ms, min_ms) ==
    /\ mode = "recorder"
    /\ rec.pc = "idle"
    /\ rec' = [ rec EXCEPT
                  !.pc = "recording",
                  !.max_ms = max_ms, !.thr = thr,
                  !.silence_ms = silence_ms, !.min_ms = min_ms,
                  !.audio_chunks = <<>>, !.silence_samples = 0,
                  !.required_silence_samples = ChunksIn(silence_ms, rec.sample_rate),
                  !.min_samples = ChunksIn(min_ms, rec.sample_rate) ]
    /\ UNCHANGED <<turn, mode, sessions, reqs, nreq, last, llm, agent>>

\* one more chunk period ends before sd.sleep(int(max_duration * 1000)) does
PeriodFits(r) == (r.ticks + 1) * blocksize * 1000 <= r.max_ms * r.sample_rate

\* the stream calls `callback` with the next chunk.  sd.CallbackStop raised
\* in the callback completes the stream (no further callbacks); it is handled
\* in the stream's callback thread and does not reach the thread in sd.sleep.
RecCallback(indata) ==
    /\ rec.pc = "recording"
    /\ ~rec.stopped
    /\ PeriodFits(rec)
    /\ LET chunks == Append(rec.audio_chunks, indata)
           silence_samples ==
               IF IsQuiet(indata, rec.thr) /\ Len(chunks) > rec.min_samples
               THEN rec.silence_samples + 1
               ELSE 0
       IN  rec' = [ rec EXCEPT
                      !.audio_chunks = chunks,
                      !.silence_samples = silence_samples,
                      !.stopped = silence_samples >= rec.required_silence_samples,
                      !.ticks = @ + 1 ]
    /\ UNCHANGED <<turn, mode, sessions, reqs, nreq, last, llm, agent>>

\* a chunk period passes after the stream completed: sd.sleep goes on
RecStreamComplete ==
    /\ rec.pc = "recording"
    /\ rec.stopped
    /\ PeriodFits(rec)
    /\ rec' = [ rec EXCEPT !.ticks = @ + 1 ]
    /\ UNCHANGED <<turn, mode, sessions, reqs, nreq, last, llm, agent>>

\* variant of RecWake: the call returns only after the silence rule fired
RecWakeWhenStopped ==
    /\ rec.pc = "recording"
    /\ rec.stopped
    /\ ~PeriodFits(rec)
    /\ rec' = [ rec EXCEPT !.pc = "returned",
                           !.result = ToWavBytes(rec, Concatenate(rec.audio_chunks)) ]
    /\ UNCHANGED <<turn, mode, sessions, reqs, nreq, last, llm, agent>>

\* sd.sleep returns, the stream is closed, the buffered audio is returned
RecWake ==
    /\ rec.pc = "recording"
    /\ ~PeriodFits(rec)
    /\ rec' = [ rec EXCEPT !.pc = "returned",
                           !.result =
                              IF rec.audio_chunks # <<>>
                              THEN ToWavBytes(rec, Concatenate(rec.audio_chunks))
                              ELSE NoBytes ]
    /\ UNCHANGED <<turn, mode, sessions, reqs, nreq, last, llm, agent>>

RecInit ==
    /\ mode = "recorder"
    /\ sessions = <<>>
    /\ reqs = [r \in Slots |-> IdleReq]
    /\ nreq = 0
    /\ last = NoResponse
    /\ llm = NewLLM
    /\ agent = NewAgent
    /\ rec \in {NewRecorder(sample_rate) : sample_rate \in SampleRates}
    /\ turn = NoTurn

RecNext ==
    \/ \E max_ms \in MaxMs, thr \in Thresholds,
          silence_ms \in SilenceMs, min_ms \in MinMs :
         RecordWithSilenceDetection(max_ms, thr, silence_ms, min_ms)
    \/ \E indata \in Chunks : RecCallback(indata)
    \/ RecStreamComplete
    \/ RecWake

RecSpec == RecInit /\ [][RecNext]_vars

\* time passes: the stream goes on calling back and sd.sleep ends
RecLiveSpec == RecInit /\ [][RecNext]_vars /\ WF_vars(RecNext)

\* ------------------------------------------- the state machine on its own
\* start_interview up to its generation call
MachineStart ==
    /\ mode = "machine"
    /\ turn.pc = "idle"
    /\ llm' = BeginCall(llm)
    /\ turn' = [ pc |-> "opening", tier |-> "opening",
                 messages |-> Messages(BeginCall(llm), Instruction("opening")) ]
    /\ UNCHANGED <<rec, mode, sessions, reqs, nreq, last, agent>>

\* the generation call of start_interview fails or returns
MachineStartReturn ==
    /\ turn.pc = "opening"
    /\ \/ UNCHANGED llm
       \/ \E u \in Openings : llm' = BeginReturn(llm, u)
    /\ turn' = NoTurn
    /\ UNCHANGED <<rec, mode, sessions, reqs, nreq, last, agent>>

\* respond up to its generation call: the user message is appended, the
\* tier is selected, the request is built
MachineRespond(user_input) ==
    /\ mode = "machine"
    /\ turn.pc = "idle"
    /\ llm.main_questions_asked >= 1
    /\ llm.question_count < MaxTurns
    /\ llm' = AdvanceCall(llm, user_input)
    /\ turn' = [ pc |-> "gen", tier |-> StateContext(llm),
                 messages |-> Messages(AdvanceCall(llm, user_input),
                                       Instruction(StateContext(llm))) ]
    /\ UNCHANGED <<rec, mode, sessions, reqs, nreq, last, agent>>

\* the generation call of respond fails or returns
MachineRespondReturn ==
    /\ turn.pc = "gen"
    /\ \/ UNCHANGED llm
       \/ \E u \in Utterances : llm' = AdvanceReturn(llm, u)
    /\ turn' = NoTurn
    /\ UNCHANGED <<rec, mode, sessions, reqs, nreq, last, agent>>

MachineInit ==
    /\ mode = "machine"
    /\ sessions = <<>>
    /\ reqs = [r \in Slots |-> IdleReq]
    /\ nreq = 0
    /\ last = NoResponse
    /\ llm = NewLLM
    /\ agent = NewAgent
    /\ rec = NewRecorder(AUDIO_SAMPLE_RATE)
    /\ turn = NoTurn

MachineNext ==
    \/ MachineStart
    \/ MachineStartReturn
    \/ \E user_input \in {Strip(t) : t \in Texts} \ {<<>>} :
         MachineRespond(user_input)
    \/ MachineRespondReturn

MachineSpec == MachineInit /\ [][MachineNext]_vars

\* ------------------------------------------------------------- properties
IsPrefix(s, t) == Len(s) <= Len(t) /\ SubSeq(t, 1, Len(s)) = s

LastEntry(t) == t[Len(t)]

\* the state snapshot right after begin
Begun(l) ==
    /\ l.main_questions_asked = 1
    /\ l.question_count = 0
    /\ l.interview_satisfied = FALSE
    /\ l.satisfaction_level = "gathering_info"

\* the handler of slot r takes a step
Steps(r) == reqs[r].pc # "idle" /\ reqs'[r] # reqs[r]

\* the handler of slot r is entered
Enters(r) == reqs[r].pc = "pending" /\ reqs'[r] # reqs[r]

\* C1: within a session is_complete never goes from true back to false: in
\* the server for every registered session, in the interactive loop for the
\* singleton state machine as long as no new interview is begun.
C1_CompleteIsMonotonic ==
    [][ /\ \A s \in DOMAIN sessions :
             sessions[s].llm.interview_satisfied
               => s \in DOMAIN sessions' /\ sessions'[s].llm.interview_satisfied
        /\ (llm.interview_satisfied /\ agent'.runs = agent.runs)
               => llm'.interview_satisfied ]_vars

\* a complete session that was advanced again, with an utterance that
\* contains no closure phrase
C1_Witness ==
    \E s \in DOMAIN sessions :
        LET h == sessions[s].llm.conversation_history
        IN  /\ sessions[s].llm.interview_satisfied
            /\ h # <<>>
            /\ LastEntry(h).role = "assistant"
            /\ ~IsEnding(LastEntry(h).content)

\* C2: once satisfaction_level is Satisfied it stays Satisfied after every
\* later advance on that session.
C2_SatisfiedIsTerminal ==
    [][ \A s \in DOMAIN sessions :
          sessions[s].llm.satisfaction_level = "satisfied"
            => sessions'[s].llm.satisfaction_level = "satisfied" ]_vars

\* C3: no two turns of one session are in progress at once: a submit_turn
\* that arrives while another one for its session is being handled waits
\* until that one has returned.
C3_OneTurnPerSession ==
    \A r, q \in Slots :
        (r # q /\ Active(r) /\ Active(q)
           /\ reqs[r].kind = "respond" /\ reqs[q].kind = "respond")
          => reqs[r].sid # reqs[q].sid

\* a turn is suspended in its generation call while a second submit_turn for
\* the same session has arrived
C3_Witness ==
    \E r, q \in Slots :
        /\ reqs[r].kind = "respond" /\ reqs[r].pc = "gen"
        /\ reqs[q].kind = "respond" /\ reqs[q].pc = "pending"
        /\ reqs[q].sid = reqs[r].sid

\* C4: a step of a handler leaves every session other than the one its
\* request names as it is, and the state a successful request returns is the
\* state of the session it names.
C4_SessionsAreIsolated ==
    [][ \A r \in Slots : Steps(r) =>
          /\ \A b \in DOMAIN sessions \ {reqs[r].sid} :
                b \in DOMAIN sessions' /\ sessions'[b] = sessions[b]
          /\ (reqs'[r].pc = "idle" /\ last'.status = 200 /\ reqs[r].kind # "start")
                => last'.state = GetState(sessions'[reqs[r].sid].llm) ]_vars

\* two sessions; the last response is a successful turn of one of them, the
\* other is as it was begun
C4_Witness ==
    \E a, b \in DOMAIN sessions :
        /\ a # b
        /\ last.kind = "respond" /\ last.status = 200 /\ last.sid = a
        /\ sessions[a].llm.question_count = 1
        /\ Begun(sessions[b].llm)
        /\ Len(sessions[b].transcript) = 1

\* C5: after end has returned for a session id, the next get_state,
\* submit_turn or end the server handles for that id signals SessionNotFound.
C5_EndedIsNotFound ==
    [][ \A r \in Slots :
          ( /\ last.kind = "end" /\ last.status = 200
            /\ Enters(r)
            /\ reqs[r].kind \in {"state", "respond", "end"}
            /\ reqs[r].sid = last.sid )
          => last'.status = 404 ]_vars

\* C6: a get_state, submit_turn, end or analyze for an id that is no key of
\* the registry returns 404 at once, having made no capability call, and
\* leaves the registry as it is.
C6_UnknownIdIsNotFound ==
    [][ \A r \in Slots :
          (Enters(r) /\ reqs[r].kind # "start" /\ ~Known(reqs[r].sid))
          => /\ reqs'[r].pc = "idle"
             /\ last'.status = 404
             /\ last'.sid = reqs[r].sid
             /\ last'.calls = 0
             /\ sessions' = sessions ]_vars

\* a submit_turn for an unknown id was answered 404 while the registry
\* holds a session
C6_Witness ==
    /\ last.kind = "respond" /\ last.status = 404
    /\ last.sid \notin DOMAIN sessions
    /\ DOMAIN sessions # {}

\* C7: every step leaves each session in the registry, with its previous
\* transcript a prefix of its new transcript.
C7_TranscriptIsAppendOnly ==
    [][ \A s \in DOMAIN sessions :
          /\ s \in DOMAIN sessions'
          /\ IsPrefix(sessions[s].transcript, sessions'[s].transcript) ]_vars

\* a session's transcript has grown by two turns
C7_Witness ==
    \E s \in DOMAIN sessions : Len(sessions[s].transcript) >= 5

\* the two entries a turn appends: the candidate's, then the interviewer's
EndsWithTurn(t, n0) ==
    /\ Len(t) = n0 + 2
    /\ t[n0 + 1].role = "candidate"
    /\ t[n0 + 2].role = "interviewer"

\* what the server's transcripts show of a turn, an opening and an empty
\* transcription when the response has been sent
ServerTurnEntries ==
    /\ (last.kind = "respond" /\ last.status = 200)
         => EndsWithTurn(sessions[last.sid].transcript, last.t0)
    /\ (last.kind = "start" /\ last.status = 200)
         => /\ Len(sessions[last.sid].transcript) = 1
            /\ sessions[last.sid].transcript[1].role = "interviewer"
    /\ (last.kind = "respond" /\ last.status = 422)
         => Len(sessions[last.sid].transcript) = last.t0

\* what the interactive loop has appended when it is back at the loop head
\* after the opening or after a turn it processed
AgentTurnEntries ==
    agent.pc = "loop" =>
        /\ agent.kind = "opening"
             => /\ Len(agent.transcript) = 1
                /\ agent.transcript[1].role = "interviewer"
        /\ agent.kind = "turn" => EndsWithTurn(agent.transcript, agent.iter0)

\* C8 as stated: a processed turn appends a candidate entry and an
\* interviewer entry, the opening one interviewer entry, and an iteration
\* whose capture or transcription is empty appends nothing.
C8_EmptyTurnAppendsNothing ==
    /\ ServerTurnEntries
    /\ AgentTurnEntries
    /\ (agent.pc = "loop" /\ agent.kind \in {"empty_capture", "empty_text"})
         => Len(agent.transcript) = agent.iter0

\* C8 as amended: a processed turn appends a candidate entry and an
\* interviewer entry and the opening one interviewer entry; an empty
\* transcription appends nothing in the server; in the interactive loop an
\* empty capture appends the interviewer's re-prompt, and an empty
\* transcription an empty candidate entry and the re-prompt.
C8_TurnEntries ==
    /\ ServerTurnEntries
    /\ AgentTurnEntries
    /\ (agent.pc = "loop" /\ agent.kind = "empty_capture")
         => /\ Len(agent.transcript) = agent.iter0 + 1
            /\ LastEntry(agent.transcript) = Entry("interviewer", Reprompt)
    /\ (agent.pc = "loop" /\ agent.kind = "empty_text")
         => /\ EndsWithTurn(agent.transcript, agent.iter0)
            /\ agent.transcript[agent.iter0 + 1].content = <<>>
            /\ LastEntry(agent.transcript) = Entry("interviewer", Reprompt)

\* the loop is back at its head after a capture that returned no audio,
\* which followed a processed turn
C8_Witness ==
    /\ agent.pc = "loop"
    /\ agent.kind = "empty_capture"
    /\ llm.question_count >= 1

\* C9: with no advance in flight the history of a session holds
\* 2 * turn_count + 1 entries, also after an advance whose generation call
\* failed; while an advance is in flight it is off by at most one.
C9_HistoryLength ==
    \A s \in DOMAIN sessions :
        LET l  == sessions[s].llm
            n  == Len(l.conversation_history)
            in_flight ==
                \E r \in Slots : /\ Active(r) /\ reqs[r].kind = "respond"
                                 /\ reqs[r].sid = s
        IN  IF in_flight
            THEN n \in (2 * l.question_count)..(2 * l.question_count + 2)
            ELSE n = 2 * l.question_count + 1

\* C10: when start_interview has returned, topics_opened is 1, turn_count 0,
\* is_complete false and satisfaction_level Gathering, whatever the state
\* machine held before.
C10_BeginState ==
    /\ \A r \in Slots : reqs[r].pc = "start_tts" => Begun(reqs[r].llm)
    /\ (last.kind = "start" /\ last.status = 200)
         => /\ last.state.main_questions_asked = 1
            /\ last.state.question_count = 0
            /\ last.state.is_complete = FALSE
            /\ last.state.satisfaction_level = "gathering_info"
    /\ (agent.kind = "opening" /\ agent.pc \in {"syn", "play", "loop"})
         => Begun(llm)

\* start_interview has returned in a second interview run on the same state
\* machine
C10_Witness ==
    /\ agent.runs >= 2
    /\ agent.kind = "opening"
    /\ agent.pc = "syn"

\* C11: closure detection reads the generated utterance only.  When the
\* generation call of an advance returns an utterance with a closure phrase,
\* is_complete is true and satisfaction_level is Satisfied afterwards; when it
\* returns one without, on a state machine that was not complete, is_complete
\* stays false, whatever the candidate said.
C11_ClosureFromUtteranceOnly ==
    [][ /\ \A r \in Slots :
             (reqs[r].pc = "gen" /\ reqs'[r].pc = "tts") =>
                LET u   == reqs'[r].resp
                    old == sessions[reqs[r].sid].llm
                    new == sessions'[reqs[r].sid].llm
                IN  /\ IsEnding(u) => /\ new.interview_satisfied
                                      /\ new.satisfaction_level = "satisfied"
                    /\ (~IsEnding(u) /\ ~old.interview_satisfied)
                          => ~new.interview_satisfied
        /\ (agent.pc = "gen" /\ agent'.pc = "syn") =>
                LET u == LastEntry(agent'.transcript).content
                IN  /\ IsEnding(u) => /\ llm'.interview_satisfied
                                      /\ llm'.satisfaction_level = "satisfied"
                    /\ (~IsEnding(u) /\ ~llm.interview_satisfied)
                          => ~llm'.interview_satisfied ]_vars

\* the candidate's reply held a closure phrase, the utterance generated in
\* answer held none, and the session is not complete
C11_Witness ==
    \E s \in DOMAIN sessions :
        LET h == sessions[s].llm.conversation_history
        IN  /\ Len(h) >= 3
            /\ LastEntry(h).role = "assistant"
            /\ ~IsEnding(LastEntry(h).content)
            /\ IsEnding(h[Len(h) - 1].content)
            /\ ~sessions[s].llm.interview_satisfied

\* sqrt(mean(x^2)) < threshold over the true sample values
TrulyQuiet(indata, thr) ==
    MeanBelow(Sum([i \in DOMAIN indata |-> indata[i] * indata[i]]),
              Len(indata), thr)

\* the buffered audio lasts at least ms milliseconds
BufferedAtLeast(r, ms) ==
    Len(r.audio_chunks) * blocksize * 1000 >= ms * r.sample_rate

\* C12: while every chunk of the stream has been silent, the capture has not
\* stopped through the silence rule with less than min_duration buffered, no
\* quiet chunk has been counted with less than min_duration buffered, and a
\* capture that returned with less than min_duration buffered ran to
\* max_duration.
C12_NoSilenceStopBeforeMin ==
    (rec.pc # "idle"
       /\ \A i \in DOMAIN rec.audio_chunks :
            TrulyQuiet(rec.audio_chunks[i], rec.thr))
      => /\ rec.stopped => BufferedAtLeast(rec, rec.min_ms)
         /\ ~BufferedAtLeast(rec, rec.min_ms) => rec.silence_samples = 0
         /\ (rec.pc = "returned" /\ ~BufferedAtLeast(rec, rec.min_ms))
              => ~PeriodFits(rec)

\* the number of leading chunks that are not silent
RECURSIVE LoudPrefix(_, _)
LoudPrefix(chunks, thr) ==
    IF chunks = <<>> \/ TrulyQuiet(Head(chunks), thr)
    THEN 0
    ELSE 1 + LoudPrefix(Tail(chunks), thr)

\* x and y, in ms * Hz, are within one chunk duration of each other
WithinOneChunk(x, y) ==
    x - y <= blocksize * 1000 /\ y - x <= blocksize * 1000

\* C13: when the capture of a stream that was loud for L >= min_duration and
\* silent afterwards, with L + silence_duration < max_duration, has returned,
\* the buffered audio and the time the call took are both within one chunk
\* duration of L + silence_duration.
C13_ReturnsAfterSilence ==
    rec.pc = "returned" =>
        LET n      == Len(rec.audio_chunks)
            L      == LoudPrefix(rec.audio_chunks, rec.thr)
            target == L * blocksize * 1000 + rec.silence_ms * rec.sample_rate
        IN  ( /\ L >= 1
              /\ \A i \in (L + 1)..n : TrulyQuiet(rec.audio_chunks[i], rec.thr)
              /\ L * blocksize * 1000 >= rec.min_ms * rec.sample_rate
              /\ target < rec.max_ms * rec.sample_rate )
            => /\ WithinOneChunk(n * blocksize * 1000, target)
               /\ WithinOneChunk(rec.ticks * blocksize * 1000, target)

\* C14: in the interactive loop an empty capture is no error.  Every step of
\* an iteration whose capture returned no audio leaves the state machine
\* (history, turn_count, topics_opened, satisfaction_level, is_complete) as
\* it is and leads to the synthesis and playback of the re-prompt only, never
\* to a transcription or generation call; back at the loop head the loop is
\* still running and goes on to the next capture.
C14_EmptyCaptureReprompts ==
    [][ /\ agent'.kind = "empty_capture"
            => /\ llm' = llm
               /\ agent'.pc \in {"syn", "play", "loop", "raised"}
               /\ agent'.pc = "loop"
                    => agent'.running /\ ~llm'.interview_satisfied
        /\ (agent.kind = "empty_capture" /\ agent.pc = "loop"
              /\ agent' # agent)
            => agent'.pc = "capture" ]_vars

\* after a processed turn and an iteration whose capture was empty, the loop
\* is in its next capture
C14_Witness ==
    /\ agent.pc = "capture"
    /\ agent.transcript # <<>>
    /\ LastEntry(agent.transcript) = Entry("interviewer", Reprompt)
    /\ Len(agent.transcript) = agent.iter0
    /\ agent.transcript[agent.iter0 - 1].role = "interviewer"
    /\ llm.question_count >= 1

\* C15: a submit_turn that failed because its transcription, generation or
\* synthesis call failed has left its session (transcript, history,
\* turn_count, topics_opened, satisfaction_level, is_complete) exactly as it
\* found it.
C15_FailedTurnChangesNothing ==
    (last.kind = "respond" /\ last.failed) => last.same

\* the capability calls one request makes when none is repeated
CallsOf(kind) ==
    CASE kind = "start"   -> 2
      [] kind = "respond" -> 3
      [] kind = "analyze" -> 1
      [] OTHER            -> 0

\* no capability call is repeated within a request, and a request that
\* succeeds without a failed call has made each of its calls once
NoRetry ==
    /\ last.calls <= CallsOf(last.kind)
    /\ (last.status = 200 /\ ~last.failed) => last.calls = CallsOf(last.kind)

\* C16 as stated: a failure of a capability call made while handling start,
\* submit_turn or analyze is the failure outcome of the request; no call is
\* retried, and no request answers success after one of its calls failed.
C16_FailuresPropagate ==
    /\ NoRetry
    /\ last.failed => last.status = 500

\* C16 as amended: a failure of a capability call made while handling start
\* or submit_turn is the failure outcome of the request and no call is
\* retried; a failure of the generation call of analyze is not retried
\* either, but analyze answers success (with its default analysis).
C16_FailuresPropagateExceptAnalyze ==
    /\ NoRetry
    /\ last.failed =>
          IF last.kind = "analyze"
          THEN last.status = 200 /\ last.calls = 1
          ELSE last.status = 500

\* the generation call of an analyze request failed
C16_Witness ==
    /\ last.kind = "analyze"
    /\ last.failed

\* C19: a start whose voice selector is not in the supported set never gets
\* to its synthesis call (after which alone a session is registered), and an
\* InterviewAgent is not constructed with such a selector.
C19_InvalidVoiceIsRejected ==
    /\ \A r \in Slots :
          (reqs[r].kind = "start" /\ reqs[r].voice \notin AURA_VOICES)
             => reqs[r].pc # "start_tts"
    /\ agent.pc # "new" /\ agent.pc # "no_agent" => agent.voice \in AURA_VOICES

\* C20: a submit_turn that found its session complete is rejected: it gets
\* to no generation call and its session stays as it was found.
C20_AdvanceOnCompleteIsRejected ==
    \A r \in Slots :
        ( /\ reqs[r].kind = "respond"
          /\ Active(r)
          /\ reqs[r].s0.llm.interview_satisfied )
        => /\ reqs[r].pc \notin {"gen", "tts"}
           /\ sessions[reqs[r].sid] = reqs[r].s0

\* C17: when a transcription, generation or synthesis call of the
\* interactive loop has failed, the loop has ended and run_interview has
\* handed the transcript back to its caller.
C17_FailureReturnsTranscript ==
    agent.failed \in {"begin", "stt", "gen", "syn"}
       => agent.pc = "returned" /\ ~agent.running

\* C18: an operator interrupt at a suspension point of the loop (capture,
\* transcription, generation, synthesis, playback, the pause between turns)
\* ends the loop with running false and is_complete as it was, and
\* run_interview returns the transcript with every entry appended before the
\* interrupt, in order.
C18_InterruptReturnsTranscript ==
    [][ (agent.pc \in Suspended /\ agent'.kind = "interrupted")
          => /\ agent'.pc = "returned"
             /\ ~agent'.running
             /\ agent'.transcript = agent.transcript
             /\ llm'.interview_satisfied = llm.interview_satisfied ]_vars

\* the run was interrupted during the generation call of a turn, after the
\* opening and the candidate's reply were recorded
C18_Witness ==
    /\ agent.kind = "interrupted"
    /\ agent.pc = "returned"
    /\ Len(agent.transcript) = 2
    /\ LastEntry(agent.transcript).role = "candidate"
    /\ LastEntry(llm.conversation_history).role = "user"

\* C21: distinct sessions are processed concurrently: while a turn of one
\* session is suspended in its transcription, generation or synthesis call,
\* the handler of a pending start, get_state or submit_turn for another
\* session can run.
C21_DistinctSessionsConcurrent ==
    \A r, q \in Slots :
        ( /\ reqs[r].kind = "respond"
          /\ reqs[r].pc \in {"stt", "gen", "tts"}
          /\ reqs[q].pc = "pending"
          /\ reqs[q].kind \in {"start", "state", "respond"}
          /\ reqs[q].sid # reqs[r].sid )
        => CanRun(q)

\* C22: in the server a submit_turn whose transcription is empty is answered
\* 422, a status no other outcome has; it has made the transcription call
\* only and its session is as the handler found it; a handler that went on
\* to the generation call has a transcription that is not empty.
C22_NoSpeechIsDistinct ==
    /\ (last.kind = "respond" /\ last.status = 422)
         => /\ last.calls = 1
            /\ ~last.failed
            /\ last.same
    /\ (last.kind = "respond" /\ last.calls = 1 /\ ~last.failed)
         => last.status = 422
    /\ last.status = 422 => last.kind = "respond"
    /\ \A r \in Slots :
         reqs[r].pc \in {"gen", "tts"} => Strip(reqs[r].text) # <<>>

\* a submit_turn without speech was answered after the session had a turn
C22_Witness ==
    /\ last.kind = "respond"
    /\ last.status = 422
    /\ last.t0 >= 3

\* C23: once an advance of the interactive loop has set is_complete, the
\* loop is emitting the closing utterance (recorded in the transcript, then
\* synthesized and played) or has ended: there is no further capture,
\* transcription or advance in that run; and whenever run_interview has
\* ended, running is false.
C23_LoopStopsOnCompletion ==
    /\ llm.interview_satisfied
         => /\ agent.pc \in {"syn", "play", "sleep", "loop", "returned", "raised"}
            /\ agent.pc \in {"syn", "play", "sleep", "loop"}
                 => /\ agent.kind = "turn"
                    /\ LastEntry(agent.transcript).role = "interviewer"
                    /\ IsEnding(LastEntry(agent.transcript).content)
    /\ agent.pc \in {"returned", "raised"} => ~agent.running

\* run_interview has returned after the turn that completed the interview
C23_Witness ==
    /\ agent.pc = "returned"
    /\ agent.kind = "turn"
    /\ llm.interview_satisfied
    /\ IsEnding(LastEntry(agent.transcript).content)

\* C24: when the transcribed reply holds an exit phrase (in any case), the
\* loop does not call advance for it: the state machine stays as it is, the
\* farewell is spoken, and the run ends with no further capture.
C24_ExitPhraseEndsLoop ==
    [][ /\ ( /\ agent.pc = "stt"
             /\ Len(agent'.transcript) > Len(agent.transcript)
             /\ \E word \in exit_words :
                  Contains(Lower(agent'.transcript[Len(agent.transcript) + 1].content),
                           word) )
           => /\ agent'.kind = "exit"
              /\ LastEntry(agent'.transcript) = Entry("interviewer", Farewell)
        /\ agent'.kind = "exit"
           => /\ llm' = llm
              /\ agent'.pc \in {"syn", "play", "returned", "raised"} ]_vars

\* after a processed turn the candidate said an exit phrase and
\* run_interview has returned
C24_Witness ==
    /\ agent.kind = "exit"
    /\ agent.pc = "returned"
    /\ llm.question_count >= 1
    /\ ~llm.interview_satisfied

\* C25: while an advance is in its generation call, the instruction of the
\* request is the one of the tier that topics_opened had when the turn
\* started: late exactly for topics_opened >= 4, mid for 2 and 3, early
\* below, so early in the first advance after begin; the instruction is the
\* last message of that request only, and no history entry ever holds an
\* instruction.
C25_TierFromTopicsOpened ==
    /\ turn.pc = "gen" =>
         LET m == llm.main_questions_asked
         IN  /\ turn.tier = "late"  <=> m >= 4
             /\ turn.tier = "mid"   <=> (2 <= m /\ m < 4)
             /\ turn.tier = "early" <=> m < 2
             /\ (llm.question_count = 1 /\ Len(llm.conversation_history) = 2)
                   => turn.tier = "early"
             /\ LastEntry(turn.messages) =
                   [role |-> "user", content |-> Instruction(turn.tier)]
             /\ SubSeq(turn.messages, 2, Len(turn.messages) - 1)
                   = llm.conversation_history
    /\ \A i \in DOMAIN llm.conversation_history :
         llm.conversation_history[i].content
            \notin {Instruction(t) : t \in {"opening", "early", "mid", "late"}}

\* an advance is in its generation call with the late instruction
C25_Witness ==
    /\ turn.pc = "gen"
    /\ turn.tier = "late"
    /\ llm.main_questions_asked >= 4

\* C26: when the generation call of an advance on a state machine that is
\* not complete returns an utterance without a closure phrase,
\* satisfaction_level is AlmostSatisfied if topics_opened, as counted after
\* this utterance, is at least 3 and Gathering otherwise, and is_complete is
\* still false.
C26_AlmostSatisfiedDoesNotEnd ==
    [][ ( /\ turn.pc = "gen"
          /\ llm' # llm
          /\ ~llm.interview_satisfied
          /\ ~IsEnding(LastEntry(llm'.conversation_history).content) )
        => /\ ~llm'.interview_satisfied
           /\ llm'.satisfaction_level =
                IF llm'.main_questions_asked >= 3
                THEN "almost_satisfied"
                ELSE "gathering_info" ]_vars

\* AlmostSatisfied was reached two turns ago and the state machine is still
\* not complete
C26_Witness ==
    /\ turn.pc = "idle"
    /\ llm.satisfaction_level = "almost_satisfied"
    /\ llm.main_questions_asked >= 5
    /\ ~llm.interview_satisfied

\* C27: when the capture has stopped through the silence rule, the run of
\* consecutive quiet chunks that ends at the last buffered chunk lasts at
\* least silence_duration, and a chunk the capture measures as loud leaves
\* the count at zero.
C27_SilenceRunLongEnough ==
    /\ rec.stopped
         => rec.silence_samples * blocksize * 1000
               >= rec.silence_ms * rec.sample_rate
    /\ (rec.audio_chunks # <<>>
          /\ ~IsQuiet(LastEntry(rec.audio_chunks), rec.thr))
         => rec.silence_samples = 0

\* C28: a chunk whose root-mean-square over its true sample values is at or
\* above silence_threshold resets the count of consecutive quiet chunks to
\* zero.
C28_LoudChunkResetsCount ==
    (rec.audio_chunks # <<>>
       /\ ~TrulyQuiet(LastEntry(rec.audio_chunks), rec.thr))
      => rec.silence_samples = 0

\* the capture call has returned in time with what it buffered
CaptureReturned ==
    /\ rec.pc = "returned"
    /\ rec.ticks * blocksize * 1000 <= rec.max_ms * rec.sample_rate
    /\ rec.result =
         IF rec.audio_chunks = <<>>
         THEN NoBytes
         ELSE [ nchannels |-> 1, sampwidth |-> 2,
                framerate |-> rec.sample_rate,
                frames |-> Concatenate(rec.audio_chunks) ]

\* C29: every capture call returns, at the latest when max_duration has
\* elapsed, also for a stream that never becomes silent; it returns all the
\* audio buffered as a WAV container if a chunk was received, and no bytes
\* otherwise.
C29_CaptureTerminates == (rec.pc = "recording") ~> CaptureReturned

\* a capture of a stream that never became silent has returned
C29_Witness ==
    /\ rec.pc = "returned"
    /\ ~rec.stopped
    /\ Len(rec.audio_chunks) >= 3
    /\ \A i \in DOMAIN rec.audio_chunks :
         ~TrulyQuiet(rec.audio_chunks[i], rec.thr)

\* C30: is_complete goes from false to true only when the generation call
\* of an advance returns an utterance with a closure phrase; no turn limit
\* sets it.
C30_CompletionOnlyByClosure ==
    [][ (~llm.interview_satisfied /\ llm'.interview_satisfied)
          => /\ turn.pc = "gen"
             /\ LastEntry(llm'.conversation_history).role = "assistant"
             /\ IsEnding(LastEntry(llm'.conversation_history).content) ]_vars

\* a state machine that has processed more than MAX_QUESTIONS turns, the
\* last one to its end, and is not complete
C30_Witness ==
    /\ llm.question_count > llm.max_questions
    /\ llm.question_count > MAX_QUESTIONS
    /\ turn.pc = "idle"
    /\ LastEntry(llm.conversation_history).role = "assistant"
    /\ ~llm.interview_satisfied

\* every registered session was opened: its first transcript entry is the
\* interviewer's opening, the utterance generated first in its history
Opened(ss) ==
    \A s \in DOMAIN ss :
        /\ ss[s].transcript # <<>>
        /\ ss[s].llm.conversation_history # <<>>
        /\ ss[s].transcript[1].role = "interviewer"
        /\ ss[s].llm.conversation_history[1].role = "assistant"
        /\ ss[s].transcript[1].content
             = Strip(ss[s].llm.conversation_history[1].content)

\* C31: a start whose generation or synthesis call fails registers no
\* session: no step of a start handler other than its successful last one
\* changes the registry, the failed start leaves the registry's ids as they
\* were, and every registered session was opened by a start whose two calls
\* returned.
C31_FailedStartRegistersNothing ==
    [][ /\ \A r \in Slots :
             (reqs[r].kind = "start" /\ Steps(r))
               => IF reqs'[r].pc = "idle" /\ last'.status = 200
                  THEN /\ ~last'.failed
                       /\ last'.calls = 2
                       /\ DOMAIN sessions' = DOMAIN sessions \cup {last'.sid}
                       /\ last'.sid \notin DOMAIN sessions
                  ELSE sessions' = sessions
        /\ Opened(sessions') ]_vars

\* the synthesis call of a start failed while the registry holds a session
C31_Witness ==
    /\ last.kind = "start"
    /\ last.failed
    /\ last.calls = 2
    /\ Cardinality(DOMAIN sessions) = 1
    /\ last.sid \notin DOMAIN sessions

\* a transcript entry and a history message written by the same party
SameParty(e, m) ==
    \/ e.role = "interviewer" /\ m.role = "assistant"
    \/ e.role = "candidate" /\ m.role = "user"

\* the transcript and the history of a session have the same length and the
\* same roles entry by entry
InStep(s) ==
    LET t == s.transcript
        h == s.llm.conversation_history
    IN  /\ Len(t) = Len(h)
        /\ \A i \in 1..Len(t) : SameParty(t[i], h[i])

\* no request for the session of id sid is being handled
NoneInFlight(sid) == \A r \in Slots : ~(Active(r) /\ reqs[r].sid = sid)

\* C32: in the server, whenever no request for a session is in flight, the
\* session's transcript and its state machine's history have the same length
\* and the same roles entry by entry (interviewer with assistant, candidate
\* with user), whatever turns succeeded or failed before.
C32_TranscriptAndHistoryInStep ==
    \A sid \in DOMAIN sessions : NoneInFlight(sid) => InStep(sessions[sid])

\* a turn's generation call failed after the candidate's entry was appended,
\* and no request for the session is in flight
C32_Witness ==
    /\ last.kind = "respond"
    /\ last.failed
    /\ last.calls = 2
    /\ last.sid \in DOMAIN sessions
    /\ NoneInFlight(last.sid)
    /\ LastEntry(sessions[last.sid].transcript).role = "candidate"
    /\ Len(sessions[last.sid].transcript) = 2

====
